---- MODULE Spec2Model ----
(***************************************************************************)
(* WhatsApp AI agent (index.js + phone-integration.js): the 'message'      *)
(* handler, the persona store (load / learn / save), the classifier, the   *)
(* executors and the composers, as a state machine.  Every `await` of the  *)
(* source is a point where a handler is suspended; the code between two    *)
(* awaits runs as one atomic step (single-threaded event loop).            *)
(***************************************************************************)
EXTENDS Integers, Sequences, FiniteSets, TLC

\* ------------------------------------------------------------------ bounds
MaxHandlers == 2
MaxMessages == 1
MaxObserve == 53
MaxUnqualified == 1

\* ------------------------------------------------------- program constants
MinLearnLength == 10
MinStyleLength == 30
MaxStyleSamples == 50
MaxMessageHistory == 100
MinPersonaSamples == 5
MaxPromptSamples == 5
DefaultMaxSearchResults == 3

\* ------------------------------------------------------------- JS values
\* A JS string is a sequence of one-character strings; a literal of the
\* source that is never inspected is kept as a single symbol.
Str(s) == [t |-> "string", s |-> s]
Null == [t |-> "null", s |-> <<>>]
Undefined == [t |-> "undefined", s |-> <<>>]

LowerCase == <<"a","b","c","d","e","f","g","h","i","j","k","l","m",
               "n","o","p","q","r","s","t","u","v","w","x","y","z">>
UpperCase == <<"A","B","C","D","E","F","G","H","I","J","K","L","M",
               "N","O","P","Q","R","S","T","U","V","W","X","Y","Z">>

toUpperChar(c) ==
    IF \E i \in 1..26 : LowerCase[i] = c
    THEN UpperCase[CHOOSE i \in 1..26 : LowerCase[i] = c]
    ELSE c

toLowerChar(c) ==
    IF \E i \in 1..26 : UpperCase[i] = c
    THEN LowerCase[CHOOSE i \in 1..26 : UpperCase[i] = c]
    ELSE c

toUpperCase(s) == [i \in 1..Len(s) |-> toUpperChar(s[i])]

toLowerCase(s) == [i \in 1..Len(s) |-> toLowerChar(s[i])]

startsWith(s, p) == Len(s) >= Len(p) /\ SubSeq(s, 1, Len(p)) = p

\* String.prototype.substring(n): everything from index n (0-based) on.
substring(s, n) == SubSeq(s, n + 1, Len(s))

WhiteSpace == {" "}

RECURSIVE trimStart(_)
trimStart(s) ==
    IF s # <<>> /\ Head(s) \in WhiteSpace THEN trimStart(Tail(s)) ELSE s

RECURSIVE trimEnd(_)
trimEnd(s) ==
    IF s # <<>> /\ s[Len(s)] \in WhiteSpace
    THEN trimEnd(SubSeq(s, 1, Len(s) - 1))
    ELSE s

trim(s) == trimEnd(trimStart(s))

\* String.prototype.split(sep) for a one-character separator.
RECURSIVE split(_, _)
split(s, sep) ==
    IF \A i \in 1..Len(s) : s[i] # sep
    THEN <<s>>
    ELSE LET i == CHOOSE k \in 1..Len(s) :
                      s[k] = sep /\ \A j \in 1..(k - 1) : s[j] # sep
         IN  <<SubSeq(s, 1, i - 1)>> \o split(SubSeq(s, i + 1, Len(s)), sep)

\* Variant of join: only the part before the next separator is kept.
joinFirstPartOnly(parts, sep) == IF parts = <<>> THEN <<>> ELSE parts[1]

\* Array.prototype.join(sep).
RECURSIVE join(_, _)
join(parts, sep) ==
    IF parts = <<>> THEN <<>>
    ELSE IF Len(parts) = 1 THEN parts[1]
    ELSE parts[1] \o <<sep>> \o join(Tail(parts), sep)

\* Array.prototype.includes.
includes(arr, x) == \E i \in 1..Len(arr) : arr[i] = x

\* A chat id is one symbol of a text.  The id an entry of the
\* ALLOWED_GROUP_IDS value stands for; '' for an empty entry.
idOf(entry) == IF entry = <<>> THEN "" ELSE entry[1]

\* Line 33: `process.env.ALLOWED_GROUP_IDS.split(',').map(id => id.trim())`.
parseAllowedIds(text) ==
    LET parts == split(text, ",")
    IN  [i \in 1..Len(parts) |-> idOf(trim(parts[i]))]

\* Line 168: `ALLOWED_GROUP_IDS.join(',')`.
groupIdsString(ids) == join([i \in 1..Len(ids) |-> <<ids[i]>>], ",")

\* Array.prototype.slice(0, n).
slice0(arr, n) == SubSeq(arr, 1, IF Len(arr) < n THEN Len(arr) ELSE n)

Min(a, b) == IF a < b THEN a ELSE b

Digits == <<"0","1","2","3","4","5","6","7","8","9">>

isDigit(c) == \E i \in 1..10 : Digits[i] = c

digitValue(c) == (CHOOSE i \in 1..10 : Digits[i] = c) - 1

RECURSIVE parseDigits(_, _)
parseDigits(s, acc) ==
    IF s # <<>> /\ isDigit(Head(s))
    THEN parseDigits(Tail(s), 10 * acc + digitValue(Head(s)))
    ELSE acc

\* parseInt(string) of a string whose first non-blank character is a digit:
\* the value of the leading run of digits.
parseInt(v) == parseDigits(trimStart(v.s), 0)

\* `a || b` where a is a string or undefined.
orElse(a, b) == IF a = Undefined \/ a = Str(<<>>) THEN b ELSE a

\* Line 21: parseInt(process.env.MAX_SEARCH_RESULTS || '3').
maxSearchResults(env) == parseInt(orElse(env, Str(<<"3">>)))

\* ------------------------------------------------------ fixed reply texts
AnalyzeFallback ==
    Str(<<"I'm having trouble understanding your message right now. Could you please try again?">>)
PersonaFallback ==
    Str(<<"I'm having trouble responding in your style right now. I'll get back to normal mode.">>)
SearchFallback ==
    Str(<<"I found some information online, but I'm having trouble processing it. Could you try asking in a different way?">>)
PhoneFallback ==
    Str(<<"I found some information on your phone, but I'm having trouble processing it. Could you try asking in a different way?">>)
ApologyText ==
    Str(<<"Sorry, I encountered an error while processing your message.">>)

\* ------------------------------------------------------------- classifier
SearchPrefix == <<"S","E","A","R","C","H",":">>
PhonePrefix == <<"P","H","O","N","E",":">>

\* analyzeWithAI, the parse of the oracle's text (response is a sequence).
parseAnalysis(response) ==
    IF startsWith(toUpperCase(response), SearchPrefix)
    THEN [needsSearch |-> TRUE, needsPhoneAccess |-> FALSE,
          searchQuery |-> Str(trim(substring(response, Len(SearchPrefix)))),
          phoneAccessType |-> Undefined, phoneAccessQuery |-> Undefined,
          response |-> Null]
    ELSE IF startsWith(toUpperCase(response), PhonePrefix)
    THEN LET phoneCommand == trim(substring(response, Len(PhonePrefix)))
             parts == split(phoneCommand, ":")
             phoneAccessType == Head(parts)
             queryParts == Tail(parts)
             phoneAccessQuery == trim(join(queryParts, ":"))
         IN  [needsSearch |-> FALSE, needsPhoneAccess |-> TRUE,
              searchQuery |-> Undefined,
              phoneAccessType |-> Str(toLowerCase(phoneAccessType)),
              phoneAccessQuery |-> Str(phoneAccessQuery),
              response |-> Null]
    ELSE [needsSearch |-> FALSE, needsPhoneAccess |-> FALSE,
          searchQuery |-> Undefined,
          phoneAccessType |-> Undefined, phoneAccessQuery |-> Undefined,
          response |-> Str(response)]

\* Variant of analysisFallback: the response left out of the record.
analysisFallbackWithoutResponse == [needsSearch |-> FALSE, needsPhoneAccess |-> FALSE, searchQuery |-> Undefined, phoneAccessType |-> Undefined, phoneAccessQuery |-> Undefined, response |-> Undefined]

\* analyzeWithAI, the catch branch: the oracle call failed.
analysisFallback ==
    [needsSearch |-> FALSE, needsPhoneAccess |-> FALSE,
     searchQuery |-> Undefined,
     phoneAccessType |-> Undefined, phoneAccessQuery |-> Undefined,
     response |-> AnalyzeFallback]

NoAnalysis ==
    [needsSearch |-> FALSE, needsPhoneAccess |-> FALSE,
     searchQuery |-> Undefined,
     phoneAccessType |-> Undefined, phoneAccessQuery |-> Undefined,
     response |-> Undefined]

\* ------------------------------------------------------------ persona store
EmptyPersona == [messageHistory |-> <<>>, styleSamples |-> <<>>]

\* The object `{}`: what JSON.parse yields for a file that holds JSON but
\* no profile.
EmptyObject == [keys |-> {}]

\* userPersona.styleSamples and userPersona.messageHistory are arrays.
HasSequences(persona) ==
    {"messageHistory", "styleSamples"} \subseteq DOMAIN persona

\* Variant of ignoresMessage: the threshold one character lower.
ignoresShorterMessage(messageText) == messageText.length < MinLearnLength - 1

\* learnFromUserMessage line 225: very short messages are ignored.
ignoresMessage(messageText) == messageText.length < MinLearnLength

\* Variant of pushStyleSample: pop() in place of shift().
pushStyleSampleDropNewest(styleSamples, messageText) ==
    IF messageText.length > MinStyleLength
    THEN LET pushed == Append(styleSamples, messageText)
         IN  IF Len(pushed) > MaxStyleSamples
             THEN SubSeq(pushed, 1, Len(pushed) - 1)
             ELSE pushed
    ELSE styleSamples

\* Variant of pushStyleSample: `>=` in place of `>` at line 228.
pushStyleSampleInclusive(styleSamples, messageText) ==
    IF messageText.length >= MinStyleLength
    THEN LET pushed == Append(styleSamples, messageText)
         IN  IF Len(pushed) > MaxStyleSamples THEN Tail(pushed) ELSE pushed
    ELSE styleSamples

\* learnFromUserMessage lines 228-234: push, then one shift when over the cap.
pushStyleSample(styleSamples, messageText) ==
    IF messageText.length > MinStyleLength
    THEN LET pushed == Append(styleSamples, messageText)
         IN  IF Len(pushed) > MaxStyleSamples THEN Tail(pushed) ELSE pushed
    ELSE styleSamples

\* learnFromUserMessage lines 237-246.
pushHistory(messageHistory, messageText, now) ==
    LET pushed == Append(messageHistory,
                         [role |-> "user", content |-> messageText,
                          timestamp |-> now])
    IN  IF Len(pushed) > MaxMessageHistory THEN Tail(pushed) ELSE pushed

\* learnFromUserMessage, the in-memory mutation of an accepted message.
learnFromUserMessage(persona, messageText, now) ==
    [messageHistory |-> pushHistory(persona.messageHistory, messageText, now),
     styleSamples |-> pushStyleSample(persona.styleSamples, messageText)]

\* ------------------------------------------------------------------ router
\* Variant of isGated: the isGroup test of line 117 left out.
isGatedByListOnly(restricted, chat, allowed) ==
    restricted /\ ~includes(allowed, chat.id)

\* client.on('message') lines 115-122: TRUE when the message is dropped.
isGated(restricted, chat, allowed) ==
    restricted /\ (~chat.isGroup \/ ~includes(allowed, chat.id))

\* Variant of route: the persona test moved in front of the other two.
routePersonaFirst(aiAnalysis, searchEnabled, phoneEnabled, personaEnabled, persona) ==
    IF personaEnabled /\ Len(persona.styleSamples) >= MinPersonaSamples
    THEN "persona"
    ELSE IF aiAnalysis.needsSearch /\ searchEnabled THEN "search"
    ELSE IF aiAnalysis.needsPhoneAccess /\ phoneEnabled THEN "device"
    ELSE "direct"

\* Variant of route: the sample-count test of line 272 left out.
routeNoThreshold(aiAnalysis, searchEnabled, phoneEnabled, personaEnabled, persona) ==
    IF aiAnalysis.needsSearch /\ searchEnabled THEN "search"
    ELSE IF aiAnalysis.needsPhoneAccess /\ phoneEnabled THEN "device"
    ELSE IF personaEnabled THEN "persona"
    ELSE "direct"

\* processMessage lines 258-277: which path runs.
route(aiAnalysis, searchEnabled, phoneEnabled, personaEnabled, persona) ==
    IF aiAnalysis.needsSearch /\ searchEnabled THEN "search"
    ELSE IF aiAnalysis.needsPhoneAccess /\ phoneEnabled THEN "device"
    ELSE IF personaEnabled /\ Len(persona.styleSamples) >= MinPersonaSamples
         THEN "persona"
    ELSE "direct"

\* Variant of personaPromptSamples: the most recent samples.
personaPromptLatest(persona) == SubSeq(persona.styleSamples, Len(persona.styleSamples) - Min(Len(persona.styleSamples), MaxPromptSamples) + 1, Len(persona.styleSamples))

\* generatePersonaResponse lines 347-350: the samples put in the prompt.
personaPromptSamples(persona) ==
    SubSeq(persona.styleSamples, 1,
           Min(Len(persona.styleSamples), MaxPromptSamples))

\* Variant of topResults: one result too many.
topResultsOneMore(results, max) == slice0(results, max + 1)

\* googleSearch line 392.
topResults(results, max) == slice0(results, max)

PhoneTypes == {<<"c","o","n","t","a","c","t","s">>, <<"f","i","l","e","s">>,
               <<"c","a","l","e","n","d","a","r">>,
               <<"l","o","c","a","t","i","o","n">>}

UnknownTypeError(type) == [kind |-> "error", items |-> <<>>,
                           error |-> <<"Unknown phone data type: ">> \o type.s]
FailedAccessError(type) == [kind |-> "error", items |-> <<>>,
                            error |-> <<"Failed to access ">> \o type.s \o <<" data: ">>]
NoContext == [kind |-> "none", items |-> <<>>, error |-> <<>>]

\* Variant of phoneCapability: `case 'calendar'` falls into the next case.
phoneCapabilityFallThrough(type) ==
    CASE type.s = <<"c","o","n","t","a","c","t","s">> -> "getContacts"
      [] type.s = <<"f","i","l","e","s">> -> "searchFiles"
      [] type.s = <<"c","a","l","e","n","d","a","r">> -> "getLocation"
      [] type.s = <<"l","o","c","a","t","i","o","n">> -> "getLocation"
      [] OTHER -> "none"

\* getPhoneData lines 403-410: the capability a recognised type calls.
phoneCapability(type) ==
    CASE type.s = <<"c","o","n","t","a","c","t","s">> -> "getContacts"
      [] type.s = <<"f","i","l","e","s">> -> "searchFiles"
      [] type.s = <<"c","a","l","e","n","d","a","r">> -> "getCalendarEvents"
      [] type.s = <<"l","o","c","a","t","i","o","n">> -> "getLocation"
      [] OTHER -> "none"

\* PhoneIntegration stubs: getContacts / searchFiles / getCalendarEvents
\* resolve to [], getLocation to a single record.
phoneStub(type) ==
    IF type.s = <<"l","o","c","a","t","i","o","n">>
    THEN [kind |-> "object", items |-> <<[latitude |-> 0, longitude |-> 0]>>,
          error |-> <<>>]
    ELSE [kind |-> "array", items |-> <<>>, error |-> <<>>]

\* ------------------------------------------------------------------- state
VARIABLES
    MAX_SEARCH_RESULTS,          \* line 21
    SEARCH_ENABLED,              \* line 22
    PHONE_INTEGRATION_ENABLED,   \* line 24
    USER_PERSONA_ENABLED,        \* line 25
    USER_PERSONA_LEARNING_MODE,  \* line 26
    GROUP_RESTRICTION_ENABLED,   \* line 27
    ALLOWED_GROUP_IDS,           \* line 31, an array of chat ids
    userPersona,                 \* line 40, the in-memory profile
    personaFile,                 \* data/user_persona.json
    envFile,                     \* the .env file beside index.js
    command,                     \* the running 'message_create' handler
    handler,                     \* the running 'message' handlers
    loader,                      \* the loadUserPersona call started on 'ready'
    clock,                       \* Date.now(); also numbers the messages
    observed                     \* history: the texts given to learnFromUserMessage

config == <<MAX_SEARCH_RESULTS, SEARCH_ENABLED, PHONE_INTEGRATION_ENABLED,
            USER_PERSONA_ENABLED, USER_PERSONA_LEARNING_MODE,
            GROUP_RESTRICTION_ENABLED>>

\* What only the '!agent allow' command touches.
allowance == <<ALLOWED_GROUP_IDS, envFile, command>>

vars == <<MAX_SEARCH_RESULTS, SEARCH_ENABLED, PHONE_INTEGRATION_ENABLED,
          USER_PERSONA_ENABLED, USER_PERSONA_LEARNING_MODE,
          GROUP_RESTRICTION_ENABLED, ALLOWED_GROUP_IDS, userPersona,
          personaFile, envFile, command, handler, loader, clock, observed>>

\* The handler slots; the specifications below let a message arrive when
\* the handler of the previous one has settled.
Handlers == 1..MaxHandlers

\* ------------------------------------------------------------------ inputs
Chats == {[id |-> "c1", isGroup |-> FALSE],
          [id |-> "g1", isGroup |-> TRUE],
          [id |-> "g2", isGroup |-> TRUE]}

TextLengths == {MinLearnLength - 1, MinLearnLength,
                MinStyleLength, MinStyleLength + 1}

\* What the oracle may answer to the classification prompt.
OracleTexts ==
    {<<"s","e","a","r","c","h",":"," ","w"," ">>,
     <<"P","H","O","N","E",":"," ","f","i","l","e","s",":"," ","a",":","b">>,
     <<"P","h","o","n","e",":","L","o","c","a","t","i","o","n",":">>,
     <<"P","H","O","N","E",":","f","a","x",":","x">>,
     <<"h","i">>}

\* What the oracle may answer to a composition prompt.
ComposedTexts == {<<"o","k">>}

\* What the search page may yield: ranked results, before truncation.
ProviderResults ==
    {<<>>, [i \in 1..(DefaultMaxSearchResults + 1) |-> [rank |-> i]]}

\* Profiles a previous run may have left in data/user_persona.json.
StoredText(i, long) ==
    [id |-> 0 - i,
     length |-> IF long THEN MinStyleLength + 1 ELSE MinLearnLength]

StoredProfile(k, n) ==
    [messageHistory |->
        [j \in 1..n |-> [role |-> "user",
                         content |-> StoredText(n - j + 1, j > n - k),
                         timestamp |-> 0]],
     styleSamples |-> [j \in 1..k |-> StoredText(k - j + 1, TRUE)]]

\* Around the persona threshold, and around the caps.
SmallSizes == {<<MinPersonaSamples - 1, MinPersonaSamples + 1>>,
               <<MinPersonaSamples, MinPersonaSamples + 2>>}
LargeSizes == {<<MaxStyleSamples, MaxMessageHistory>>,
               <<MaxStyleSamples + 1, MaxMessageHistory + 1>>}

AbsentFile == [kind |-> "absent", data |-> EmptyPersona]
CorruptFile == [kind |-> "corrupt", data |-> EmptyPersona]

\* JSON.stringify(userPersona, null, 2) as the content of the file.
JSONstringify(persona) == [kind |-> "profile", data |-> persona]

SmallFiles ==
    {AbsentFile, CorruptFile}
    \cup {JSONstringify(StoredProfile(sz[1], sz[2])) : sz \in SmallSizes}

LargeFiles ==
    {JSONstringify(StoredProfile(sz[1], sz[2])) : sz \in LargeSizes}

NoMessage == [body |-> [id |-> 0, length |-> 0], fromMe |-> FALSE,
              chat |-> [id |-> "none", isGroup |-> FALSE]]

\* The oracle has not answered / its call failed.
NotAsked == [t |-> "none", s |-> <<>>]
Rejected == [t |-> "rejected", s |-> <<>>]

IdleHandler ==
    [pc |-> "idle", message |-> NoMessage, aiAnalysis |-> NoAnalysis,
     path |-> "none", context |-> NoContext, prompt |-> <<>>,
     response |-> Undefined, writing |-> EmptyPersona,
     gate |-> "unchecked", gateList |-> <<>>, routeSamples |-> 0,
     oracle |-> NotAsked, capability |-> "none",
     trace |-> <<>>, passed |-> <<>>, replies |-> <<>>]

IdleLoader == [pc |-> "idle"]

\* The .env file: its ALLOWED_GROUP_IDS= line (the ids, or null when there
\* is no such line; the value is a text, a chat id being one symbol of
\* it) and its GROUP_RESTRICTION_ENABLED= line ("true",
\* "false", or "none" when there is no such line).  readFile of a missing
\* file is replaced by '' (line 165), a file without either line.
AbsentEnv == [exists |-> FALSE, hasIds |-> FALSE, ids |-> <<>>,
              restriction |-> "none"]

NoChat == [id |-> "none", isGroup |-> FALSE]

\* A file the write to which failed half way.
EmptiedEnv == [exists |-> TRUE, hasIds |-> FALSE, ids |-> <<>>,
               restriction |-> "none"]

IdleCommand ==
    [pc |-> "idle", chat |-> NoChat, envContent |-> AbsentEnv,
     count |-> 0, replies |-> <<>>]

\* Lines 31-35: the allow-list is parsed only under group restriction.
InitialAllowLists(restricted) ==
    IF restricted THEN {<<>>, <<"g1", "c1">>} ELSE {<<>>}

InitState ==
    /\ userPersona = EmptyPersona
    /\ handler = [h \in Handlers |-> IdleHandler]
    /\ loader = IdleLoader
    /\ clock = 0
    /\ observed = <<>>

\* No '!agent allow' command is running and there is no .env file: the
\* settings come from the process environment, MAX_SEARCH_RESULTS unset.
InitDefaults ==
    /\ MAX_SEARCH_RESULTS = maxSearchResults(Undefined)
    /\ envFile = AbsentEnv
    /\ command = IdleCommand

Init ==
    /\ InitDefaults
    /\ SEARCH_ENABLED \in BOOLEAN
    /\ PHONE_INTEGRATION_ENABLED \in BOOLEAN
    /\ USER_PERSONA_ENABLED \in BOOLEAN
    /\ USER_PERSONA_LEARNING_MODE \in BOOLEAN
    /\ GROUP_RESTRICTION_ENABLED \in BOOLEAN
    /\ ALLOWED_GROUP_IDS \in InitialAllowLists(GROUP_RESTRICTION_ENABLED)
    /\ personaFile \in SmallFiles
    /\ InitState

\* ------------------------------------------------------------ the handlers
Finished(hr) == hr.pc \in {"idle", "done", "raised"}

Called(hr, name) == [hr EXCEPT !.trace = Append(@, name)]

Quiet == \A h \in Handlers : handler[h].pc = "idle"

\* Variant of FirstIdle: a message is taken up only when no other is
\* being handled (the handlers run one after the other).
FirstIdleWhenQuiet(h) == \A g \in Handlers : handler[g].pc = "idle" /\ (g < h => handler[g].pc # "idle")

\* The idle handler slot of lowest number takes the next message.
FirstIdle(h) ==
    /\ handler[h].pc = "idle"
    /\ \A g \in Handlers : g < h => handler[g].pc # "idle"

\* client.on('message'), line 92: the transport hands over a message and
\* the handler suspends at `await message.getChat()`.
Arrive(h, msg) ==
    /\ handler[h].pc = "idle"
    /\ handler' = [handler EXCEPT ![h] =
          [IdleHandler EXCEPT !.pc = "getChat", !.message = msg,
                              !.trace = <<"getChat">>]]
    /\ clock' = clock + 1
    /\ UNCHANGED <<config, allowance, userPersona, personaFile,
                   loader, observed>>

\* Lines 132-138: the catch block of the handler.
CatchBlock(hr) ==
    IF ~GROUP_RESTRICTION_ENABLED
    THEN [Called(Called(hr, "catch"), "apology") EXCEPT
            !.pc = "apology", !.passed = Append(@, ApologyText)]
    ELSE [Called(hr, "catch") EXCEPT !.pc = "done"]

\* Line 95 rejects.
GetChatRejects(h) ==
    /\ handler[h].pc = "getChat"
    /\ handler' = [handler EXCEPT ![h] = CatchBlock(@)]
    /\ UNCHANGED <<config, allowance, userPersona, personaFile,
                   loader, clock, observed>>

\* Lines 107-112 with learning off: return.
GetChatSelfSkip(h) ==
    /\ handler[h].pc = "getChat"
    /\ handler[h].message.fromMe
    /\ ~USER_PERSONA_LEARNING_MODE
    /\ handler' = [handler EXCEPT ![h].pc = "done"]
    /\ UNCHANGED <<config, allowance, userPersona, personaFile,
                   loader, clock, observed>>

\* Lines 107-112 and 224-225: learnFromUserMessage returns at once.
GetChatSelfIgnored(h) ==
    /\ handler[h].pc = "getChat"
    /\ handler[h].message.fromMe
    /\ USER_PERSONA_LEARNING_MODE
    /\ ignoresMessage(handler[h].message.body)
    /\ observed' = Append(observed, handler[h].message.body)
    /\ handler' = [handler EXCEPT ![h] =
          [Called(@, "observe") EXCEPT !.pc = "done"]]
    /\ UNCHANGED <<config, allowance, userPersona, personaFile,
                   loader, clock>>

\* Lines 107-112 and 224-249: the in-memory mutation, then saveUserPersona
\* suspends at `await fs.mkdir` (line 65).
GetChatSelfLearn(h) ==
    /\ handler[h].pc = "getChat"
    /\ handler[h].message.fromMe
    /\ USER_PERSONA_LEARNING_MODE
    /\ ~ignoresMessage(handler[h].message.body)
    /\ HasSequences(userPersona)
    /\ observed' = Append(observed, handler[h].message.body)
    /\ userPersona' =
          learnFromUserMessage(userPersona, handler[h].message.body, clock)
    /\ handler' = [handler EXCEPT ![h] =
          [Called(Called(@, "observe"), "mkdir") EXCEPT !.pc = "mkdir"]]
    /\ UNCHANGED <<config, allowance, personaFile, loader, clock>>

\* Lines 107-112 and 229 / 237: the profile has no arrays, push throws a
\* TypeError before anything is changed; the handler's catch block runs.
GetChatSelfLearnThrows(h) ==
    /\ handler[h].pc = "getChat"
    /\ handler[h].message.fromMe
    /\ USER_PERSONA_LEARNING_MODE
    /\ ~ignoresMessage(handler[h].message.body)
    /\ ~HasSequences(userPersona)
    /\ observed' = Append(observed, handler[h].message.body)
    /\ handler' = [handler EXCEPT ![h] = CatchBlock(Called(@, "observe"))]
    /\ UNCHANGED <<config, allowance, userPersona, personaFile, loader,
                   clock>>

\* Line 65 resolves; line 66 serialises the profile as it is now and
\* suspends at `await fs.writeFile`.
SaveMkdirResolves(h) ==
    /\ handler[h].pc = "mkdir"
    /\ handler' = [handler EXCEPT ![h] =
          [Called(@, "writeFile") EXCEPT !.pc = "writeFile",
                                         !.writing = userPersona]]
    /\ UNCHANGED <<config, allowance, userPersona, personaFile,
                   loader, clock, observed>>

\* Line 65 rejects: caught at line 67, the handler returns.
SaveMkdirRejects(h) ==
    /\ handler[h].pc = "mkdir"
    /\ handler' = [handler EXCEPT ![h].pc = "done"]
    /\ UNCHANGED <<config, allowance, userPersona, personaFile,
                   loader, clock, observed>>

\* Line 66 resolves: the file holds the serialised profile.
WriteFileResolves(h) ==
    /\ handler[h].pc = "writeFile"
    /\ personaFile' = JSONstringify(handler[h].writing)
    /\ handler' = [handler EXCEPT ![h].pc = "done"]
    /\ UNCHANGED <<config, allowance, userPersona, loader, clock,
                   observed>>

\* Variant of WriteFileRejects: the rejection escapes saveUserPersona.
WriteFileRejectsEscapes(h) ==
    /\ handler[h].pc = "writeFile"
    /\ personaFile' \in {personaFile, CorruptFile}
    /\ handler' = [handler EXCEPT ![h] = CatchBlock(@)]
    /\ UNCHANGED <<config, allowance, userPersona, loader, clock,
                   observed>>

\* Line 66 rejects: the file is untouched or left truncated; caught at 67.
WriteFileRejects(h) ==
    /\ handler[h].pc = "writeFile"
    /\ personaFile' \in {personaFile, CorruptFile}
    /\ handler' = [handler EXCEPT ![h].pc = "done"]
    /\ UNCHANGED <<config, allowance, userPersona, loader, clock,
                   observed>>

\* Lines 115-122: the message is dropped.
GetChatGated(h) ==
    /\ handler[h].pc = "getChat"
    /\ ~handler[h].message.fromMe
    /\ isGated(GROUP_RESTRICTION_ENABLED, handler[h].message.chat,
               ALLOWED_GROUP_IDS)
    /\ handler' = [handler EXCEPT ![h] =
          [@ EXCEPT !.pc = "done", !.gate = "dropped",
                    !.gateList = ALLOWED_GROUP_IDS]]
    /\ UNCHANGED <<config, allowance, userPersona, personaFile,
                   loader, clock, observed>>

\* Lines 115-128 and 283-294: processMessage -> analyzeWithAI suspends at
\* `await model.generateContent(prompt)`.
GetChatEligible(h) ==
    /\ handler[h].pc = "getChat"
    /\ ~handler[h].message.fromMe
    /\ ~isGated(GROUP_RESTRICTION_ENABLED, handler[h].message.chat,
                ALLOWED_GROUP_IDS)
    /\ handler' = [handler EXCEPT ![h] =
          [Called(@, "classify") EXCEPT !.pc = "classify",
                    !.gate = "eligible", !.gateList = ALLOWED_GROUP_IDS]]
    /\ UNCHANGED <<config, allowance, userPersona, personaFile,
                   loader, clock, observed>>

\* getPhoneData lines 402-413, up to its await (or its default return).
StartPhone(hr) ==
    IF hr.aiAnalysis.phoneAccessType.s \in PhoneTypes
    THEN [Called(hr, "device") EXCEPT
            !.pc = "device",
            !.capability = phoneCapability(hr.aiAnalysis.phoneAccessType)]
    ELSE [Called(hr, "compose") EXCEPT
            !.pc = "compose",
            !.context = UnknownTypeError(hr.aiAnalysis.phoneAccessType)]

\* Line 131: message.reply(response) is called.
StartReply(hr, response) ==
    [Called(hr, "reply") EXCEPT !.pc = "reply", !.response = response,
                                !.passed = Append(@, response)]

\* Line 272 is reached with persona mode on and a profile that has no
\* styleSamples array: reading its length throws.
personaTestThrows(aiAnalysis) ==
    /\ ~(aiAnalysis.needsSearch /\ SEARCH_ENABLED)
    /\ ~(aiAnalysis.needsPhoneAccess /\ PHONE_INTEGRATION_ENABLED)
    /\ USER_PERSONA_ENABLED
    /\ ~HasSequences(userPersona)

\* processMessage lines 258-277 once analyzeWithAI has returned aiAnalysis.
Dispatch(hr, aiAnalysis) ==
    IF personaTestThrows(aiAnalysis)
    THEN CatchBlock([hr EXCEPT !.aiAnalysis = aiAnalysis])
    ELSE
    LET p == route(aiAnalysis, SEARCH_ENABLED, PHONE_INTEGRATION_ENABLED,
                   USER_PERSONA_ENABLED, userPersona)
        hr1 == [hr EXCEPT !.aiAnalysis = aiAnalysis, !.path = p,
                          !.routeSamples =
                              IF HasSequences(userPersona)
                              THEN Len(userPersona.styleSamples) ELSE 0]
    IN  CASE p = "search" -> [Called(hr1, "search") EXCEPT !.pc = "search"]
          [] p = "device" -> StartPhone(hr1)
          [] p = "persona" ->
                [Called(hr1, "compose") EXCEPT
                    !.pc = "compose",
                    !.prompt = personaPromptSamples(userPersona)]
          [] OTHER -> StartReply(hr1, aiAnalysis.response)

\* Line 294 resolves with the oracle's text.
AnalyzeResolves(h, text) ==
    /\ handler[h].pc = "classify"
    /\ handler' = [handler EXCEPT ![h] =
          Dispatch([@ EXCEPT !.oracle = Str(text)], parseAnalysis(text))]
    /\ UNCHANGED <<config, allowance, userPersona, personaFile,
                   loader, clock, observed>>

\* Line 294 rejects: lines 325-331.
AnalyzeRejects(h) ==
    /\ handler[h].pc = "classify"
    /\ handler' = [handler EXCEPT ![h] =
          Dispatch([@ EXCEPT !.oracle = Rejected], analysisFallback)]
    /\ UNCHANGED <<config, allowance, userPersona, personaFile,
                   loader, clock, observed>>

\* googleSearch line 368 resolves; lines 374-392; then
\* generateResponseWithContext suspends at line 434.
SearchResolves(h, results) ==
    /\ handler[h].pc = "search"
    /\ handler' = [handler EXCEPT ![h] =
          [Called(@, "compose") EXCEPT
              !.pc = "compose",
              !.context = [kind |-> "search", items |-> topResults(results, MAX_SEARCH_RESULTS),
                           error |-> <<>>]]]
    /\ UNCHANGED <<config, allowance, userPersona, personaFile,
                   loader, clock, observed>>

\* googleSearch line 368 rejects: lines 393-396 return [].
SearchRejects(h) ==
    /\ handler[h].pc = "search"
    /\ handler' = [handler EXCEPT ![h] =
          [Called(@, "compose") EXCEPT
              !.pc = "compose",
              !.context = [kind |-> "search", items |-> <<>>,
                           error |-> <<>>]]]
    /\ UNCHANGED <<config, allowance, userPersona, personaFile,
                   loader, clock, observed>>

\* getPhoneData lines 404-410: the capability resolves.
DeviceResolves(h) ==
    /\ handler[h].pc = "device"
    /\ handler' = [handler EXCEPT ![h] =
          [Called(@, "compose") EXCEPT
              !.pc = "compose",
              !.context = phoneStub(handler[h].aiAnalysis.phoneAccessType)]]
    /\ UNCHANGED <<config, allowance, userPersona, personaFile,
                   loader, clock, observed>>

\* getPhoneData lines 414-417: the capability throws.
DeviceRejects(h) ==
    /\ handler[h].pc = "device"
    /\ handler' = [handler EXCEPT ![h] =
          [Called(@, "compose") EXCEPT
              !.pc = "compose",
              !.context =
                 FailedAccessError(handler[h].aiAnalysis.phoneAccessType)]]
    /\ UNCHANGED <<config, allowance, userPersona, personaFile,
                   loader, clock, observed>>

\* The catch branches of the three composers (lines 360, 438, 466).
ComposeFallback(path) ==
    CASE path = "search" -> SearchFallback
      [] path = "device" -> PhoneFallback
      [] OTHER -> PersonaFallback

\* Lines 356-357 / 434-435 / 462-463: the composing oracle call resolves.
ComposeResolves(h, text) ==
    /\ handler[h].pc = "compose"
    /\ handler' = [handler EXCEPT ![h] = StartReply(@, Str(text))]
    /\ UNCHANGED <<config, allowance, userPersona, personaFile,
                   loader, clock, observed>>

\* The composing oracle call rejects.
ComposeRejects(h) ==
    /\ handler[h].pc = "compose"
    /\ handler' = [handler EXCEPT ![h] =
          StartReply(@, ComposeFallback(@.path))]
    /\ UNCHANGED <<config, allowance, userPersona, personaFile,
                   loader, clock, observed>>

\* Variant of ReplyResolves: the reply is delivered and the handler then
\* runs its catch block all the same.
ReplyResolvesThenCatches(h) == handler[h].pc = "reply" /\ handler' = [handler EXCEPT ![h] = CatchBlock([@ EXCEPT !.replies = Append(@, handler[h].response)])] /\ UNCHANGED <<config, allowance, userPersona, personaFile, loader, clock, observed>>

\* Line 131 resolves: the reply is delivered.
ReplyResolves(h) ==
    /\ handler[h].pc = "reply"
    /\ handler' = [handler EXCEPT ![h] =
          [@ EXCEPT !.pc = "done", !.replies = Append(@, handler[h].response)]]
    /\ UNCHANGED <<config, allowance, userPersona, personaFile,
                   loader, clock, observed>>

\* Line 131 rejects: the catch block runs.
ReplyRejects(h) ==
    /\ handler[h].pc = "reply"
    /\ handler' = [handler EXCEPT ![h] = CatchBlock(@)]
    /\ UNCHANGED <<config, allowance, userPersona, personaFile,
                   loader, clock, observed>>

\* Line 136 resolves: the apology is delivered.
ApologyResolves(h) ==
    /\ handler[h].pc = "apology"
    /\ handler' = [handler EXCEPT ![h] =
          [@ EXCEPT !.pc = "done", !.replies = Append(@, ApologyText)]]
    /\ UNCHANGED <<config, allowance, userPersona, personaFile,
                   loader, clock, observed>>

\* Line 136 rejects inside the catch block: the handler's promise rejects.
ApologyRejects(h) ==
    /\ handler[h].pc = "apology"
    /\ handler' = [handler EXCEPT ![h].pc = "raised"]
    /\ UNCHANGED <<config, allowance, userPersona, personaFile,
                   loader, clock, observed>>

\* Lines 111, 121, 131-139: the handler's promise has settled; its frame
\* is gone.
Retire(h) ==
    /\ Finished(handler[h])
    /\ handler[h].pc # "idle"
    /\ handler' = [handler EXCEPT ![h] = IdleHandler]
    /\ UNCHANGED <<config, allowance, userPersona, personaFile,
                   loader, clock, observed>>

\* ------------------------------------------------------- loadUserPersona
\* client.on('ready') line 88, once per client.initialize() (line 471):
\* loadUserPersona() is started, not awaited, and suspends at
\* `await fs.mkdir` (line 48).
Ready ==
    /\ loader.pc = "idle"
    /\ loader' = [loader EXCEPT !.pc = "mkdir"]
    /\ UNCHANGED <<config, allowance, userPersona, personaFile,
                   handler, clock, observed>>

\* Line 48 resolves; line 50 suspends at `await fs.readFile`.
LoadMkdirResolves ==
    /\ loader.pc = "mkdir"
    /\ loader' = [loader EXCEPT !.pc = "readFile"]
    /\ UNCHANGED <<config, allowance, userPersona, personaFile,
                   handler, clock, observed>>

\* Line 48 rejects: caught at line 57.
LoadMkdirRejects ==
    /\ loader.pc = "mkdir"
    /\ loader' = [loader EXCEPT !.pc = "done"]
    /\ UNCHANGED <<config, allowance, userPersona, personaFile,
                   handler, clock, observed>>

\* Line 50 resolves and line 51 parses: the profile of the file replaces
\* the in-memory one; text that is no JSON throws into line 53.
LoadReadResolves ==
    /\ loader.pc = "readFile"
    /\ personaFile.kind # "absent"
    /\ userPersona' = IF personaFile.kind = "profile"
                      THEN personaFile.data
                      ELSE userPersona
    /\ loader' = [loader EXCEPT !.pc = "done"]
    /\ UNCHANGED <<config, allowance, personaFile, handler, clock,
                   observed>>

\* Line 50 rejects (no file, or an I/O error): caught at line 53.
LoadReadRejects ==
    /\ loader.pc = "readFile"
    /\ loader' = [loader EXCEPT !.pc = "done"]
    /\ UNCHANGED <<config, allowance, userPersona, personaFile,
                   handler, clock, observed>>

\* ------------------------------------------- client.on('message_create')
CommandFinished == command.pc \in {"idle", "done", "raised"}

\* Lines 142-150: a message of the owner that starts with '!agent allow'
\* is created in chat; the handler suspends at `await message.getChat()`.
CommandArrives(chat) ==
    /\ CommandFinished
    /\ command' = [IdleCommand EXCEPT !.pc = "getChat", !.chat = chat,
                                      !.count = command.count + 1]
    /\ UNCHANGED <<config, ALLOWED_GROUP_IDS, envFile, userPersona,
                   personaFile, handler, loader, clock, observed>>

\* Line 150 rejects: the outer catch replies at line 200.
CommandGetChatRejects ==
    /\ command.pc = "getChat"
    /\ command' = [command EXCEPT !.pc = "replyError"]
    /\ UNCHANGED <<config, ALLOWED_GROUP_IDS, envFile, userPersona,
                   personaFile, handler, loader, clock, observed>>

\* Variant of CommandNotGroup: the `return` of line 155 left out.
CommandNotGroupPushes ==
    /\ command.pc = "getChat"
    /\ ~command.chat.isGroup
    /\ ALLOWED_GROUP_IDS' = Append(ALLOWED_GROUP_IDS, command.chat.id)
    /\ command' = [command EXCEPT !.pc = "replyNotGroup"]
    /\ UNCHANGED <<config, envFile, userPersona, personaFile, handler,
                   loader, clock, observed>>

\* Lines 153-156: not a group chat.
CommandNotGroup ==
    /\ command.pc = "getChat"
    /\ ~command.chat.isGroup
    /\ command' = [command EXCEPT !.pc = "replyNotGroup"]
    /\ UNCHANGED <<config, ALLOWED_GROUP_IDS, envFile, userPersona,
                   personaFile, handler, loader, clock, observed>>

\* Variant of CommandAlready: the test of line 159 left out, the id is
\* pushed once more.
CommandAlreadyPushesAgain == command.pc = "getChat" /\ command.chat.isGroup /\ includes(ALLOWED_GROUP_IDS, command.chat.id) /\ ALLOWED_GROUP_IDS' = Append(ALLOWED_GROUP_IDS, command.chat.id) /\ command' = [command EXCEPT !.pc = "replyAlready"] /\ UNCHANGED <<config, envFile, userPersona, personaFile, handler, loader, clock, observed>>

\* Lines 159 and 195-197: the group is on the list already.
CommandAlready ==
    /\ command.pc = "getChat"
    /\ command.chat.isGroup
    /\ includes(ALLOWED_GROUP_IDS, command.chat.id)
    /\ command' = [command EXCEPT !.pc = "replyAlready"]
    /\ UNCHANGED <<config, ALLOWED_GROUP_IDS, envFile, userPersona,
                   personaFile, handler, loader, clock, observed>>

\* Lines 159-165: the id is pushed, then the handler suspends at
\* `await fs.readFile(envPath)`.
CommandPush ==
    /\ command.pc = "getChat"
    /\ command.chat.isGroup
    /\ ~includes(ALLOWED_GROUP_IDS, command.chat.id)
    /\ ALLOWED_GROUP_IDS' = Append(ALLOWED_GROUP_IDS, command.chat.id)
    /\ command' = [command EXCEPT !.pc = "readEnv"]
    /\ UNCHANGED <<config, envFile, userPersona, personaFile, handler,
                   loader, clock, observed>>

\* Lines 168-186: the new content of the .env file.
rewriteEnv(envContent, ids, restricted) ==
    [exists |-> TRUE, hasIds |-> TRUE, ids |-> groupIdsString(ids),
     restriction |-> IF envContent.restriction = "none" \/ ~restricted
                     THEN "true"
                     ELSE envContent.restriction]

\* Line 165 resolves with the file's text; lines 168-188 build the new
\* text and suspend at `await fs.writeFile`.
CommandReadEnvResolves ==
    /\ command.pc = "readEnv"
    /\ envFile.exists
    /\ command' = [command EXCEPT
          !.pc = "writeEnv",
          !.envContent = rewriteEnv(envFile, ALLOWED_GROUP_IDS,
                                    GROUP_RESTRICTION_ENABLED)]
    /\ UNCHANGED <<config, ALLOWED_GROUP_IDS, envFile, userPersona,
                   personaFile, handler, loader, clock, observed>>

\* Line 165 rejects (no file, or an I/O error): `.catch(() => '')`.
CommandReadEnvRejects ==
    /\ command.pc = "readEnv"
    /\ command' = [command EXCEPT
          !.pc = "writeEnv",
          !.envContent = rewriteEnv(AbsentEnv, ALLOWED_GROUP_IDS,
                                    GROUP_RESTRICTION_ENABLED)]
    /\ UNCHANGED <<config, ALLOWED_GROUP_IDS, envFile, userPersona,
                   personaFile, handler, loader, clock, observed>>

\* Line 188 resolves: the file holds the new text; reply at line 190.
CommandWriteEnvResolves ==
    /\ command.pc = "writeEnv"
    /\ envFile' = command.envContent
    /\ command' = [command EXCEPT !.pc = "replyAdded"]
    /\ UNCHANGED <<config, ALLOWED_GROUP_IDS, userPersona, personaFile,
                   handler, loader, clock, observed>>

\* Line 188 rejects: the file is untouched or left emptied; the inner
\* catch replies at line 193.
CommandWriteEnvRejects ==
    /\ command.pc = "writeEnv"
    /\ envFile' \in {envFile, EmptiedEnv}
    /\ command' = [command EXCEPT !.pc = "replySession"]
    /\ UNCHANGED <<config, ALLOWED_GROUP_IDS, userPersona, personaFile,
                   handler, loader, clock, observed>>

CommandReplies ==
    {"replyNotGroup", "replyAdded", "replySession", "replyAlready",
     "replyError"}

\* Lines 154 / 190 / 193 / 196 / 200 resolve: the reply is delivered.
CommandReplyResolves ==
    /\ command.pc \in CommandReplies
    /\ command' = [command EXCEPT !.pc = "done",
                                  !.replies = Append(@, command.pc)]
    /\ UNCHANGED <<config, ALLOWED_GROUP_IDS, envFile, userPersona,
                   personaFile, handler, loader, clock, observed>>

\* The reply rejects: line 190 falls into the inner catch (line 193),
\* lines 154 / 193 / 196 into the outer catch (line 200), and line 200
\* rejects the handler's promise.
CommandReplyRejects ==
    /\ command.pc \in CommandReplies
    /\ command' = [command EXCEPT !.pc =
          CASE command.pc = "replyAdded" -> "replySession"
            [] command.pc = "replyError" -> "raised"
            [] OTHER -> "replyError"]
    /\ UNCHANGED <<config, ALLOWED_GROUP_IDS, envFile, userPersona,
                   personaFile, handler, loader, clock, observed>>

\* ---------------------------------------------------------- specifications
\* The owner's own outgoing messages.
SelfMessages ==
    {[body |-> [id |-> clock + 1, length |-> n], fromMe |-> TRUE, chat |-> c] :
        n \in TextLengths, c \in Chats}

\* Messages of other people.
OtherMessages ==
    {[body |-> [id |-> clock + 1, length |-> MinStyleLength + 1],
      fromMe |-> FALSE, chat |-> c] : c \in Chats}

Messages == SelfMessages \cup OtherMessages

LearnStep(h) ==
    \/ GetChatSelfIgnored(h)
    \/ GetChatSelfLearn(h)
    \/ SaveMkdirResolves(h)
    \/ WriteFileResolves(h)
    \/ Retire(h)

SaveFailure(h) ==
    \/ SaveMkdirRejects(h)
    \/ WriteFileRejects(h)

ReplyStep(h) ==
    \/ GetChatRejects(h)
    \/ GetChatSelfSkip(h)
    \/ GetChatGated(h)
    \/ GetChatEligible(h)
    \/ \E text \in OracleTexts : AnalyzeResolves(h, text)
    \/ AnalyzeRejects(h)
    \/ \E results \in ProviderResults : SearchResolves(h, results)
    \/ SearchRejects(h)
    \/ DeviceResolves(h)
    \/ DeviceRejects(h)
    \/ \E text \in ComposedTexts : ComposeResolves(h, text)
    \/ ComposeRejects(h)
    \/ ReplyResolves(h)
    \/ ReplyRejects(h)
    \/ ApologyResolves(h)
    \/ ApologyRejects(h)

LoaderStep ==
    \/ Ready
    \/ LoadMkdirResolves
    \/ LoadMkdirRejects
    \/ LoadReadResolves
    \/ LoadReadRejects

\* The whole agent, any configuration; a message arrives once the handler
\* of the previous one has settled, the load started on 'ready' runs
\* alongside.
Next ==
    \/ \E h \in Handlers : \E msg \in Messages :
          Quiet /\ FirstIdle(h) /\ clock < MaxMessages /\ Arrive(h, msg)
    \/ \E h \in Handlers : LearnStep(h) \/ SaveFailure(h) \/ ReplyStep(h)
    \/ LoaderStep

Spec == Init /\ [][Next]_vars

\* The persona feature as the README sets it up (lines 555-556), the
\* owner writing, a profile of any size on disk.
InitPersona ==
    /\ InitDefaults
    /\ SEARCH_ENABLED = TRUE
    /\ PHONE_INTEGRATION_ENABLED = FALSE
    /\ USER_PERSONA_ENABLED = TRUE
    /\ USER_PERSONA_LEARNING_MODE = TRUE
    /\ GROUP_RESTRICTION_ENABLED = FALSE
    /\ ALLOWED_GROUP_IDS = <<>>
    /\ personaFile \in SmallFiles \cup LargeFiles
    /\ InitState

NextPersona ==
    \/ \E h \in Handlers : \E msg \in SelfMessages :
          Quiet /\ FirstIdle(h) /\ clock < MaxMessages /\ Arrive(h, msg)
    \/ \E h \in Handlers : LearnStep(h) \/ SaveFailure(h)
    \/ LoaderStep

SpecPersona == InitPersona /\ [][NextPersona]_vars

\* The owner writing into a fresh profile: nothing on disk, no load.
InitObserve ==
    /\ InitDefaults
    /\ SEARCH_ENABLED = TRUE
    /\ PHONE_INTEGRATION_ENABLED = FALSE
    /\ USER_PERSONA_ENABLED = TRUE
    /\ USER_PERSONA_LEARNING_MODE = TRUE
    /\ GROUP_RESTRICTION_ENABLED = FALSE
    /\ ALLOWED_GROUP_IDS = <<>>
    /\ personaFile = AbsentFile
    /\ InitState

Unqualified == SelectSeq(observed, LAMBDA t : t.length <= MinStyleLength)

\* One text of each kind: ignored, history only, style sample.
ObserveLengths == {MinLearnLength - 1, MinStyleLength, MinStyleLength + 1}

NextObserve ==
    \/ \E h \in Handlers : \E msg \in SelfMessages :
          /\ Quiet /\ FirstIdle(h) /\ clock < MaxObserve
          /\ msg.chat.id = "g1"
          /\ msg.body.length \in ObserveLengths
          /\ msg.body.length <= MinStyleLength
                => Len(Unqualified) < MaxUnqualified
          /\ Arrive(h, msg)
    \/ \E h \in Handlers : LearnStep(h)

SpecObserve == InitObserve /\ [][NextObserve]_vars

\* ----------------------------------------------------------------------
\* The pipeline of one eligible message under every search / device
\* setting and search limit, with a wider choice of oracle answers and
\* search pages.
MaxMessagesPipeline == 1
MaxPageResults == 4

\* More answers of the oracle: an empty query, inner blanks, a leading
\* blank, "PHONE:" inside a search, no colon, an empty kind, a kind without
\* query, every kind, colons in the query, a blank before the colon.
ClassifyTexts ==
    OracleTexts
    \cup {
           <<"S","E","A","R","C","H",":">>,
           <<"S","e","a","r","c","h",":"," "," ","a"," ","b"," ">>,
           <<" ","s","e","a","r","c","h",":"," ","x">>,
           <<"S","E","A","R","C","H",":"," ","P","H","O","N","E",":"," ","f","i","l","e","s",":"," ","a">>,
           <<"s","e","a","r","c","h">>,
           <<"P","H","O","N","E",":">>,
           <<"p","h","o","n","e",":"," ","F","i","l","e","s">>,
           <<"P","H","O","N","E",":"," ","c","o","n","t","a","c","t","s",":"," ","q">>,
           <<"P","h","o","n","e",":"," ","C","A","L","E","N","D","A","R",":","x",":","y",":"," ">>,
           <<"P","H","O","N","E",":"," ","f","i","l","e","s"," ",":"," ","x">>}

\* process.env.MAX_SEARCH_RESULTS: unset, empty, or a number.
EnvMaxSearchResults ==
    {Undefined, Str(<<>>), Str(<<"0">>), Str(<<"1">>), Str(<<"2">>),
     Str(<<"1","0">>)}

\* The results found in the page of a search, in the page's order.
SearchPage(n) == [i \in 1..n |-> [page |-> n, rank |-> i]]

SearchPages == {SearchPage(n) : n \in 0..MaxPageResults}

InitPipeline ==
    /\ MAX_SEARCH_RESULTS \in {maxSearchResults(e) : e \in EnvMaxSearchResults}
    /\ envFile = AbsentEnv
    /\ command = IdleCommand
    /\ SEARCH_ENABLED \in BOOLEAN
    /\ PHONE_INTEGRATION_ENABLED \in BOOLEAN
    /\ USER_PERSONA_ENABLED = FALSE
    /\ USER_PERSONA_LEARNING_MODE = FALSE
    /\ GROUP_RESTRICTION_ENABLED = FALSE
    /\ ALLOWED_GROUP_IDS = <<>>
    /\ personaFile = AbsentFile
    /\ InitState

NextPipeline ==
    \/ \E h \in Handlers : \E msg \in OtherMessages :
          /\ Quiet /\ FirstIdle(h) /\ clock < MaxMessagesPipeline
          /\ msg.chat.id = "c1"
          /\ Arrive(h, msg)
    \/ \E h \in Handlers :
          \/ GetChatRejects(h)
          \/ GetChatEligible(h)
          \/ \E text \in ClassifyTexts : AnalyzeResolves(h, text)
          \/ AnalyzeRejects(h)
          \/ \E results \in SearchPages : SearchResolves(h, results)
          \/ SearchRejects(h)
          \/ DeviceResolves(h)
          \/ DeviceRejects(h)
          \/ \E text \in ComposedTexts : ComposeResolves(h, text)
          \/ ComposeRejects(h)
          \/ ReplyResolves(h)
          \/ ReplyRejects(h)
          \/ ApologyResolves(h)
          \/ ApologyRejects(h)
          \/ Retire(h)

SpecPipeline == InitPipeline /\ [][NextPipeline]_vars

\* ----------------------------------------------------------------------
\* Start-up on storage that holds no profile: no file, text that is no
\* JSON, or JSON that is no profile; the owner writing.
EmptyObjectFile == JSONstringify(EmptyObject)

UnusableFiles == {AbsentFile, CorruptFile, EmptyObjectFile}

MaxMessagesLoad == 1

InitLoad ==
    /\ InitDefaults
    /\ SEARCH_ENABLED = TRUE
    /\ PHONE_INTEGRATION_ENABLED = FALSE
    /\ USER_PERSONA_ENABLED = TRUE
    /\ USER_PERSONA_LEARNING_MODE = TRUE
    /\ GROUP_RESTRICTION_ENABLED = FALSE
    /\ ALLOWED_GROUP_IDS = <<>>
    /\ personaFile \in UnusableFiles
    /\ InitState

NextLoad ==
    \/ \E h \in Handlers : \E msg \in SelfMessages :
          Quiet /\ FirstIdle(h) /\ clock < MaxMessagesLoad /\ Arrive(h, msg)
    \/ \E h \in Handlers :
          \/ LearnStep(h)
          \/ GetChatSelfLearnThrows(h)
          \/ ApologyResolves(h)
          \/ ApologyRejects(h)
    \/ LoaderStep

SpecLoad == InitLoad /\ [][NextLoad]_vars

\* ----------------------------------------------------------------------
\* Group restriction on, the owner issuing '!agent allow' while messages
\* of other people come in; search, device and persona off.
MaxCommands == 2
MaxMessagesAllow == 1

\* A .env file that holds the settings the process started with.
EnvOf(ids) == [exists |-> TRUE, hasIds |-> ids # <<>>,
               ids |-> groupIdsString(ids), restriction |-> "true"]

InitAllow ==
    /\ MAX_SEARCH_RESULTS = maxSearchResults(Undefined)
    /\ SEARCH_ENABLED = FALSE
    /\ PHONE_INTEGRATION_ENABLED = FALSE
    /\ USER_PERSONA_ENABLED = FALSE
    /\ USER_PERSONA_LEARNING_MODE = FALSE
    /\ GROUP_RESTRICTION_ENABLED = TRUE
    /\ ALLOWED_GROUP_IDS \in InitialAllowLists(TRUE)
    /\ envFile \in {AbsentEnv, EnvOf(ALLOWED_GROUP_IDS)}
    /\ command = IdleCommand
    /\ personaFile = AbsentFile
    /\ InitState

CommandStep ==
    \/ CommandGetChatRejects
    \/ CommandNotGroup
    \/ CommandAlready
    \/ CommandPush
    \/ CommandReadEnvResolves
    \/ CommandReadEnvRejects
    \/ CommandWriteEnvResolves
    \/ CommandWriteEnvRejects
    \/ CommandReplyResolves
    \/ CommandReplyRejects

NextAllow ==
    \/ \E chat \in Chats : command.count < MaxCommands /\ CommandArrives(chat)
    \/ CommandStep
    \/ \E h \in Handlers : \E msg \in OtherMessages :
          Quiet /\ FirstIdle(h) /\ clock < MaxMessagesAllow /\ Arrive(h, msg)
    \/ \E h \in Handlers :
          \/ GetChatRejects(h)
          \/ GetChatGated(h)
          \/ GetChatEligible(h)
          \/ \E text \in OracleTexts : AnalyzeResolves(h, text)
          \/ AnalyzeRejects(h)
          \/ ReplyResolves(h)
          \/ ReplyRejects(h)
          \/ Retire(h)

SpecAllow == InitAllow /\ [][NextAllow]_vars

\* ----------------------------------------------------------------------
\* The owner's messages handled side by side, with the load started on
\* 'ready': a handler starts while others are suspended.
MaxOverlap == 2

\* Nothing on disk, or a profile of one short message.
OverlapFiles == {AbsentFile, JSONstringify(StoredProfile(0, 1))}

InitOverlap ==
    /\ InitDefaults
    /\ SEARCH_ENABLED = TRUE
    /\ PHONE_INTEGRATION_ENABLED = FALSE
    /\ USER_PERSONA_ENABLED = TRUE
    /\ USER_PERSONA_LEARNING_MODE = TRUE
    /\ GROUP_RESTRICTION_ENABLED = FALSE
    /\ ALLOWED_GROUP_IDS = <<>>
    /\ personaFile \in OverlapFiles
    /\ InitState

NextOverlap ==
    \/ \E h \in Handlers : \E msg \in SelfMessages :
          /\ FirstIdle(h) /\ clock < MaxOverlap
          /\ msg.chat.id = "g1"
          /\ msg.body.length \in ObserveLengths
          /\ Arrive(h, msg)
    \/ \E h \in Handlers : LearnStep(h)
    \/ LoaderStep

SpecOverlap == InitOverlap /\ [][NextOverlap]_vars

\* The same after the load has finished on a disk without profile: only
\* observes and their saves interleave.
InitSaves ==
    /\ InitDefaults
    /\ SEARCH_ENABLED = TRUE
    /\ PHONE_INTEGRATION_ENABLED = FALSE
    /\ USER_PERSONA_ENABLED = TRUE
    /\ USER_PERSONA_LEARNING_MODE = TRUE
    /\ GROUP_RESTRICTION_ENABLED = FALSE
    /\ ALLOWED_GROUP_IDS = <<>>
    /\ personaFile = AbsentFile
    /\ userPersona = EmptyPersona
    /\ handler = [h \in Handlers |-> IdleHandler]
    /\ loader = [pc |-> "done"]
    /\ clock = 0
    /\ observed = <<>>

NextSaves ==
    \/ \E h \in Handlers : \E msg \in SelfMessages :
          /\ FirstIdle(h) /\ clock < MaxOverlap
          /\ msg.chat.id = "g1"
          /\ msg.body.length \in ObserveLengths
          /\ Arrive(h, msg)
    \/ \E h \in Handlers : LearnStep(h)

SpecSaves == InitSaves /\ [][NextSaves]_vars

\* ----------------------------------------------------------------------
\* Messages of other people and of the owner handled side by side, search
\* on, no group restriction: a handler starts while another is suspended
\* at an external call, which may never return.
MaxMessagesHang == 3

HangTexts == {<<"s","e","a","r","c","h",":"," ","w"," ">>, <<"h","i">>}

\* The provider's answer to the one query asked: a single item.
HangResults == {SearchPage(1)}

HangMessages ==
    {[body |-> [id |-> clock + 1, length |-> MinLearnLength],
      fromMe |-> me, chat |-> [id |-> "c1", isGroup |-> FALSE]] :
        me \in BOOLEAN}

InitHang ==
    /\ InitDefaults
    /\ SEARCH_ENABLED = TRUE
    /\ PHONE_INTEGRATION_ENABLED = FALSE
    /\ USER_PERSONA_ENABLED = FALSE
    /\ USER_PERSONA_LEARNING_MODE = TRUE
    /\ GROUP_RESTRICTION_ENABLED = FALSE
    /\ ALLOWED_GROUP_IDS = <<>>
    /\ personaFile = AbsentFile
    /\ userPersona = EmptyPersona
    /\ handler = [h \in Handlers |-> IdleHandler]
    /\ loader = [pc |-> "done"]
    /\ clock = 0
    /\ observed = <<>>

\* A message is handed to a free handler.
ArriveHang ==
    \E h \in Handlers : \E msg \in HangMessages : FirstIdle(h) /\ Arrive(h, msg)

\* An external call of handler h returns, and the handler runs on to
\* its next await or to its end (no call fails here: a call is either
\* answered or left hanging).
HandlerStepHang(h) ==
    \/ GetChatSelfLearn(h)
    \/ SaveMkdirResolves(h)
    \/ WriteFileResolves(h)
    \/ GetChatEligible(h)
    \/ \E text \in HangTexts : AnalyzeResolves(h, text)
    \/ \E results \in HangResults : SearchResolves(h, results)
    \/ \E text \in ComposedTexts : ComposeResolves(h, text)
    \/ ReplyResolves(h)

NextHang ==
    \/ clock < MaxMessagesHang /\ ArriveHang
    \/ \E h \in Handlers : HandlerStepHang(h) \/ Retire(h)

SpecHang == InitHang /\ [][NextHang]_vars

\* ----------------------------------------------------------------------
\* The whole agent in any configuration once the load on 'ready' is over,
\* every external call made for a message returning or failing in the
\* end: no await of a handler stays pending for ever.
MaxMessagesFair == 1

LoadedProfiles == {EmptyPersona, StoredProfile(MinPersonaSamples, MinPersonaSamples + 2)}

InitFair ==
    /\ InitDefaults
    /\ SEARCH_ENABLED \in BOOLEAN
    /\ PHONE_INTEGRATION_ENABLED \in BOOLEAN
    /\ USER_PERSONA_ENABLED \in BOOLEAN
    /\ USER_PERSONA_LEARNING_MODE \in BOOLEAN
    /\ GROUP_RESTRICTION_ENABLED \in BOOLEAN
    /\ ALLOWED_GROUP_IDS \in InitialAllowLists(GROUP_RESTRICTION_ENABLED)
    /\ personaFile = AbsentFile
    /\ userPersona \in LoadedProfiles
    /\ handler = [h \in Handlers |-> IdleHandler]
    /\ loader = [pc |-> "done"]
    /\ clock = 0
    /\ observed = <<>>

\* The pending call of handler h settles.
SettleFair(h) == LearnStep(h) \/ SaveFailure(h) \/ ReplyStep(h)

NextFair ==
    \/ \E h \in Handlers : \E msg \in Messages :
          Quiet /\ FirstIdle(h) /\ clock < MaxMessagesFair /\ Arrive(h, msg)
    \/ \E h \in Handlers : SettleFair(h)

SpecFair ==
    InitFair /\ [][NextFair]_vars /\ \A h \in Handlers : WF_vars(SettleFair(h))

\* ----------------------------------------------------------------------
\* Replies in the owner's style: a profile below, at and above the number
\* of samples a prompt takes is on disk, somebody else writes, search,
\* device access and the persona each on or off.
MaxMessagesPrompt == 1

PromptSizes == {<<MinPersonaSamples - 1, MinPersonaSamples + 1>>,
                <<MaxPromptSamples, MaxPromptSamples + 2>>,
                <<MaxPromptSamples + 2, MaxPromptSamples + 4>>}

PromptFiles == {JSONstringify(StoredProfile(sz[1], sz[2])) : sz \in PromptSizes}

InitPrompt ==
    /\ InitDefaults
    /\ SEARCH_ENABLED \in BOOLEAN
    /\ PHONE_INTEGRATION_ENABLED \in BOOLEAN
    /\ USER_PERSONA_ENABLED \in BOOLEAN
    /\ USER_PERSONA_LEARNING_MODE = FALSE
    /\ GROUP_RESTRICTION_ENABLED = FALSE
    /\ ALLOWED_GROUP_IDS = <<>>
    /\ personaFile \in PromptFiles
    /\ InitState

NextPrompt ==
    \/ \E h \in Handlers : \E msg \in OtherMessages :
          /\ Quiet /\ FirstIdle(h) /\ clock < MaxMessagesPrompt
          /\ msg.chat.id = "c1"
          /\ Arrive(h, msg)
    \/ \E h \in Handlers :
          \/ GetChatRejects(h)
          \/ GetChatEligible(h)
          \/ \E text \in OracleTexts : AnalyzeResolves(h, text)
          \/ AnalyzeRejects(h)
          \/ \E results \in ProviderResults : SearchResolves(h, results)
          \/ SearchRejects(h)
          \/ DeviceResolves(h)
          \/ DeviceRejects(h)
          \/ \E text \in ComposedTexts : ComposeResolves(h, text)
          \/ ComposeRejects(h)
          \/ ReplyResolves(h)
          \/ ReplyRejects(h)
          \/ ApologyResolves(h)
          \/ ApologyRejects(h)
          \/ Retire(h)
    \/ LoaderStep

SpecPrompt == InitPrompt /\ [][NextPrompt]_vars

\* ----------------------------------------------------------------------
\* The allow-list from start-up on, group restriction on or off: dotenv
\* (line 1) puts the lines of the .env file into process.env, lines 26 and
\* 31-35 read the settings from there, then '!agent allow' commands and
\* messages of other people come in.
MaxCommandsEnv == 2
MaxMessagesEnv == 1

\* The ALLOWED_GROUP_IDS values a .env file may hold: "g1" and "g1, g2".
StoredIdTexts == {<<"g1">>, <<"g1", ",", " ", "g2">>}

EnvFiles ==
    {AbsentEnv}
    \cup {[exists |-> TRUE, hasIds |-> FALSE, ids |-> <<>>, restriction |-> r] :
            r \in {"none", "true", "false"}}
    \cup {[exists |-> TRUE, hasIds |-> TRUE, ids |-> t, restriction |-> r] :
            t \in StoredIdTexts, r \in {"none", "true", "false"}}

\* Line 26 on the environment dotenv has filled.
startupRestriction(env) == env.restriction = "true"

\* Lines 31-35 on the environment dotenv has filled.
startupAllowList(env) ==
    IF startupRestriction(env) /\ env.hasIds /\ env.ids # <<>>
    THEN parseAllowedIds(env.ids)
    ELSE <<>>

\* What the oracle answers here: plain text.
EnvTexts == {<<"h","i">>}

InitEnv ==
    /\ MAX_SEARCH_RESULTS = maxSearchResults(Undefined)
    /\ SEARCH_ENABLED = FALSE
    /\ PHONE_INTEGRATION_ENABLED = FALSE
    /\ USER_PERSONA_ENABLED = FALSE
    /\ USER_PERSONA_LEARNING_MODE = FALSE
    /\ envFile \in EnvFiles
    /\ GROUP_RESTRICTION_ENABLED = startupRestriction(envFile)
    /\ ALLOWED_GROUP_IDS = startupAllowList(envFile)
    /\ command = IdleCommand
    /\ personaFile = AbsentFile
    /\ InitState

NextEnv ==
    \/ \E chat \in Chats : command.count < MaxCommandsEnv /\ CommandArrives(chat)
    \/ CommandStep
    \/ \E h \in Handlers : \E msg \in OtherMessages :
          Quiet /\ FirstIdle(h) /\ clock < MaxMessagesEnv /\ Arrive(h, msg)
    \/ \E h \in Handlers :
          \/ GetChatRejects(h)
          \/ GetChatGated(h)
          \/ GetChatEligible(h)
          \/ \E text \in EnvTexts : AnalyzeResolves(h, text)
          \/ AnalyzeRejects(h)
          \/ ReplyResolves(h)
          \/ ReplyRejects(h)
          \/ ApologyResolves(h)
          \/ ApologyRejects(h)
          \/ Retire(h)

SpecEnv == InitEnv /\ [][NextEnv]_vars

\* ------------------------------------------------------------------ claims
Has(trace, name) == \E i \in 1..Len(trace) : trace[i] = name

Count(trace, name) == Cardinality({i \in 1..Len(trace) : trace[i] = name})

Elems(seq) == {seq[i] : i \in 1..Len(seq)}

\* The handler is past the classification of an eligible message.
Routed(hr) == hr.gate = "eligible" /\ hr.pc # "classify"

\* The paths of which the handler's record shows a step.
PathsRun(hr) ==
    {p \in {"search", "device", "persona", "direct"} :
        \/ p = "search" /\ Has(hr.trace, "search")
        \/ p = "device" /\ (Has(hr.trace, "device") \/ hr.context.kind = "error")
        \/ p = "persona" /\ hr.prompt # <<>>
        \/ p = "direct" /\ Has(hr.trace, "reply") /\ ~Has(hr.trace, "compose")}

PersonaEligible(hr) ==
    USER_PERSONA_ENABLED /\ hr.routeSamples >= MinPersonaSamples

\* C1: for an eligible message exactly one of the four paths runs, chosen in
\* the order search (Search action, search enabled), device (DeviceQuery
\* action, device integration enabled), persona (persona enabled and at
\* least 5 samples), direct; whatever the flags and the sample count.
C1_OnePathByPrecedence ==
    \A h \in Handlers :
        LET hr == handler[h]
            a == hr.aiAnalysis
        IN  Routed(hr) =>
              /\ Cardinality(PathsRun(hr)) = 1
              /\ (a.needsSearch /\ SEARCH_ENABLED) => PathsRun(hr) = {"search"}
              /\ (~(a.needsSearch /\ SEARCH_ENABLED)
                    /\ a.needsPhoneAccess /\ PHONE_INTEGRATION_ENABLED)
                    => PathsRun(hr) = {"device"}
              /\ (~(a.needsSearch /\ SEARCH_ENABLED)
                    /\ ~(a.needsPhoneAccess /\ PHONE_INTEGRATION_ENABLED)
                    /\ PersonaEligible(hr))
                    => PathsRun(hr) = {"persona"}
              /\ (~(a.needsSearch /\ SEARCH_ENABLED)
                    /\ ~(a.needsPhoneAccess /\ PHONE_INTEGRATION_ENABLED)
                    /\ ~PersonaEligible(hr))
                    => PathsRun(hr) = {"direct"}

\* C1 witness: a Search action handled to the end on the search path while
\* persona mode was enabled and eligible.
C1_Witness ==
    \E h \in Handlers :
        /\ handler[h].pc = "done"
        /\ handler[h].aiAnalysis.needsSearch
        /\ SEARCH_ENABLED
        /\ PersonaEligible(handler[h])
        /\ PathsRun(handler[h]) = {"search"}
        /\ Len(handler[h].replies) = 1

\* The chat failed the test of the allow-list as it was at the gating check.
NotAllowedAtGate(hr) ==
    /\ hr.gate # "unchecked"
    /\ ~hr.message.chat.isGroup \/ hr.message.chat.id \notin Elems(hr.gateList)

\* C2: under group restriction a message of somebody else whose chat is no
\* group, or is not on the allow-list at the gating check, gets no reply,
\* causes no classify / search / device / compose call and no error.
C2_GatedIsSilent ==
    \A h \in Handlers :
        LET hr == handler[h]
        IN  (GROUP_RESTRICTION_ENABLED /\ ~hr.message.fromMe
                /\ NotAllowedAtGate(hr))
            => /\ hr.pc = "done"
               /\ hr.trace = <<"getChat">>
               /\ hr.passed = <<>>
               /\ hr.replies = <<>>

\* C2 witness: a private chat whose id is on the allow-list was dropped.
C2_Witness ==
    \E h \in Handlers :
        /\ GROUP_RESTRICTION_ENABLED
        /\ handler[h].gate = "dropped"
        /\ ~handler[h].message.chat.isGroup
        /\ handler[h].message.chat.id \in Elems(handler[h].gateList)
        /\ handler[h].pc = "done"

\* C3: a self-authored message never gets a reply and never enters the
\* classify / execute / compose pipeline, and observe is invoked for it
\* exactly when learning mode is on.
C3_SelfAuthoredNeverReplied ==
    \A h \in Handlers :
        LET hr == handler[h]
        IN  hr.message.fromMe =>
              /\ hr.passed = <<>>
              /\ hr.replies = <<>>
              /\ \A c \in {"classify", "search", "device", "compose"} :
                    ~Has(hr.trace, c)
              /\ hr.pc \in {"done", "raised"} =>
                    (Has(hr.trace, "observe") <=> USER_PERSONA_LEARNING_MODE)

\* C4: styleSamples never holds more than 50 entries and messageHistory
\* never more than 100, whatever was loaded and observed.
C4_CapsHold ==
    /\ Len(userPersona.styleSamples) <= MaxStyleSamples
    /\ Len(userPersona.messageHistory) <= MaxMessageHistory

\* The observed texts that qualify as style samples, in observation order.
Qualified == SelectSeq(observed, LAMBDA t : t.length > MinStyleLength)

\* C5: from an empty profile, once more than 50 texts longer than 30 have
\* been observed, styleSamples is exactly the 50 most recent of them, in
\* the order they were observed.
C5_FiftyMostRecent ==
    Len(Qualified) > MaxStyleSamples =>
        /\ Len(userPersona.styleSamples) = MaxStyleSamples
        /\ userPersona.styleSamples =
              SubSeq(Qualified, Len(Qualified) - MaxStyleSamples + 1,
                     Len(Qualified))

\* C5 witness: 52 qualifying texts and one that does not qualify observed.
C5_Witness ==
    /\ Len(Qualified) = MaxStyleSamples + 2
    /\ Len(observed) > Len(Qualified)
    /\ Quiet

\* The step in which handler h calls learnFromUserMessage.
ObserveStep(h) ==
    /\ handler[h].pc = "getChat"
    /\ observed' = Append(observed, handler[h].message.body)

\* C6: observing a text shorter than 10 leaves styleSamples and
\* messageHistory as they are and starts no save.
C6_ShortTextIgnored ==
    /\ [][\A h \in Handlers :
            (ObserveStep(h) /\ handler[h].message.body.length < MinLearnLength)
            => /\ userPersona' = userPersona
               /\ personaFile' = personaFile
               /\ handler'[h].pc = "done"]_vars
    /\ [](\A h \in Handlers :
            (Has(handler[h].trace, "observe")
                /\ handler[h].message.body.length < MinLearnLength)
            => /\ ~Has(handler[h].trace, "mkdir")
               /\ ~Has(handler[h].trace, "writeFile"))

\* C6 witness: a text of 9 characters was observed into a loaded profile.
C6_Witness ==
    \E h \in Handlers :
        /\ Has(handler[h].trace, "observe")
        /\ handler[h].message.body.length < MinLearnLength
        /\ handler[h].pc = "done"
        /\ userPersona.styleSamples # <<>>

\* new is old with x appended, the oldest entry dropped when old was full.
AppendedFifo(old, new, cap) ==
    IF Len(old) < cap
    THEN SubSeq(new, 1, Len(new) - 1) = old
    ELSE SubSeq(new, 1, Len(new) - 1) = Tail(old)

\* C7: observing a text of 10 to 30 characters appends one
\* {role: 'user', content: text} record to messageHistory (oldest dropped
\* at 100) and leaves styleSamples alone; a text longer than 30 is appended
\* to both sequences (styleSamples: oldest dropped at 50).
C7_AppendByLength ==
    [][\A h \in Handlers :
          LET text == handler[h].message.body
              oldH == userPersona.messageHistory
              newH == userPersona'.messageHistory
              oldS == userPersona.styleSamples
              newS == userPersona'.styleSamples
          IN  (ObserveStep(h) /\ text.length >= MinLearnLength)
              => /\ newH # <<>>
                 /\ newH[Len(newH)].role = "user"
                 /\ newH[Len(newH)].content = text
                 /\ AppendedFifo(oldH, newH, MaxMessageHistory)
                 /\ text.length <= MinStyleLength => newS = oldS
                 /\ text.length > MinStyleLength =>
                       /\ newS # <<>>
                       /\ newS[Len(newS)] = text
                       /\ AppendedFifo(oldS, newS, MaxStyleSamples)]_vars

\* C7 witness: a text of 30 characters is the newest record of a history
\* that was full when it was observed.
C7_Witness ==
    LET hist == userPersona.messageHistory
    IN  /\ Len(hist) = MaxMessageHistory
        /\ hist[Len(hist)].content.length = MinStyleLength
        /\ hist[Len(hist)].content.id > 0
        /\ hist[1].content.id = 1 - MaxMessageHistory
        /\ Len(userPersona.styleSamples) = MaxStyleSamples

\* C8: whenever the catch block of the handler has run, the handler
\* completes without raising, having delivered exactly one apology when
\* group restriction is off and nothing when it is on.
C8_CatchAllNeverRaises ==
    \A h \in Handlers :
        LET hr == handler[h]
        IN  (Has(hr.trace, "catch") /\ hr.pc \in {"done", "raised"})
            => /\ hr.pc = "done"
               /\ hr.replies =
                     IF GROUP_RESTRICTION_ENABLED THEN <<>> ELSE <<ApologyText>>

\* C9: every reply text the router hands to the transport is a string,
\* never null or undefined.
C9_ReplyIsText ==
    \A h \in Handlers :
        \A i \in 1..Len(handler[h].passed) :
            handler[h].passed[i].t = "string"

IsDirect(a) == ~a.needsSearch /\ ~a.needsPhoneAccess

\* The original statement of C10: a Direct action is answered with its
\* responseText and without a further oracle call.
C10_DirectIsFinal ==
    \A h \in Handlers :
        LET hr == handler[h]
        IN  (Routed(hr) /\ IsDirect(hr.aiAnalysis))
            => /\ ~Has(hr.trace, "compose")
               /\ Count(hr.trace, "classify") = 1
               /\ hr.passed # <<>> /\ hr.passed[1] = hr.aiAnalysis.response

\* C10 as amended: a Direct action is answered with its responseText and
\* without a further oracle call when persona mode is off or fewer than 5
\* style samples are held at routing; with persona mode on and at least 5
\* samples one further oracle call is made and its output, or the persona
\* fallback, is the reply.
C10_DirectIsFinalUnlessPersona ==
    \A h \in Handlers :
        LET hr == handler[h]
        IN  (Routed(hr) /\ IsDirect(hr.aiAnalysis))
            => /\ Count(hr.trace, "classify") = 1
               /\ ~PersonaEligible(hr) =>
                     /\ ~Has(hr.trace, "compose")
                     /\ hr.passed # <<>>
                     /\ hr.passed[1] = hr.aiAnalysis.response
               /\ PersonaEligible(hr) =>
                     /\ Count(hr.trace, "compose") = 1
                     /\ hr.passed # <<>> =>
                           hr.passed[1] \in
                              {Str(t) : t \in ComposedTexts} \cup {PersonaFallback}

\* C10 witness: with persona mode on and only 4 samples a Direct answer of
\* the oracle was delivered as the reply.
C10_Witness ==
    \E h \in Handlers :
        /\ handler[h].pc = "done"
        /\ Routed(handler[h])
        /\ IsDirect(handler[h].aiAnalysis)
        /\ USER_PERSONA_ENABLED
        /\ handler[h].routeSamples = MinPersonaSamples - 1
        /\ handler[h].replies = <<Str(<<"h","i">>)>>

\* C11: the classifier never yields a DeviceQuery whose resourceKind is
\* outside {contacts, files, calendar, location}; an unrecognised kind in
\* a PHONE: answer of the oracle is not carried on as an action.
C11_KindIsRecognised ==
    \A h \in Handlers :
        handler[h].aiAnalysis.needsPhoneAccess
            => handler[h].aiAnalysis.phoneAccessType.s \in PhoneTypes

\* The reference parser of an oracle answer.
firstIndex(s, c) ==
    IF \E i \in 1..Len(s) : s[i] = c
    THEN CHOOSE i \in 1..Len(s) : s[i] = c /\ \A j \in 1..(i - 1) : s[j] # c
    ELSE 0

hasPrefixIgnoringCase(s, p) ==
    /\ Len(s) >= Len(p)
    /\ \A i \in 1..Len(p) : toLowerChar(s[i]) = toLowerChar(p[i])

stripped(s) ==
    LET solid == {i \in 1..Len(s) : s[i] \notin WhiteSpace}
    IN  IF solid = {} THEN <<>>
        ELSE SubSeq(s, CHOOSE i \in solid : \A j \in solid : i <= j,
                       CHOOSE i \in solid : \A j \in solid : j <= i)

Classified(text) ==
    IF hasPrefixIgnoringCase(text, SearchPrefix)
    THEN [case |-> "Search",
          query |-> stripped(SubSeq(text, Len(SearchPrefix) + 1, Len(text)))]
    ELSE IF hasPrefixIgnoringCase(text, PhonePrefix)
    THEN LET rest == stripped(SubSeq(text, Len(PhonePrefix) + 1, Len(text)))
             colon == firstIndex(rest, ":")
             kind == IF colon = 0 THEN rest ELSE SubSeq(rest, 1, colon - 1)
         IN  [case |-> "DeviceQuery",
              resourceKind |-> [i \in 1..Len(kind) |-> toLowerChar(kind[i])],
              queryText |-> IF colon = 0 THEN <<>>
                            ELSE stripped(SubSeq(rest, colon + 1, Len(rest)))]
    ELSE [case |-> "Direct", responseText |-> text]

\* The action as the fields of aiAnalysis: one case populated.
IsAction(a, action) ==
    CASE action.case = "Search" ->
            /\ a.needsSearch /\ ~a.needsPhoneAccess
            /\ a.searchQuery = Str(action.query)
            /\ a.phoneAccessType = Undefined /\ a.phoneAccessQuery = Undefined
            /\ a.response = Null
      [] action.case = "DeviceQuery" ->
            /\ ~a.needsSearch /\ a.needsPhoneAccess
            /\ a.phoneAccessType = Str(action.resourceKind)
            /\ a.phoneAccessQuery = Str(action.queryText)
            /\ a.searchQuery = Undefined
            /\ a.response = Null
      [] OTHER ->
            /\ ~a.needsSearch /\ ~a.needsPhoneAccess
            /\ a.response = Str(action.responseText)
            /\ a.searchQuery = Undefined
            /\ a.phoneAccessType = Undefined /\ a.phoneAccessQuery = Undefined

\* C12: for every answer of the oracle the classifier yields what the
\* reference parser yields: SEARCH: in any case -> Search with the trimmed
\* remainder; else PHONE: in any case -> DeviceQuery, the kind being the
\* lower-cased text before the first ':' of the trimmed remainder and the
\* query everything after it, trimmed, later colons kept; else Direct with
\* the whole answer.  Exactly one case is populated.
C12_ClassifyIsReferenceParser ==
    \A h \in Handlers :
        handler[h].oracle.t = "string"
            => IsAction(handler[h].aiAnalysis, Classified(handler[h].oracle.s))

\* C12 witness: "Phone: CALENDAR:x:y: " was classified as a calendar query
\* for "x:y:".
C12_Witness ==
    \E h \in Handlers :
        /\ handler[h].oracle =
              Str(<<"P","h","o","n","e",":"," ","C","A","L","E","N","D","A","R",
                    ":","x",":","y",":"," ">>)
        /\ handler[h].aiAnalysis.phoneAccessType =
              Str(<<"c","a","l","e","n","d","a","r">>)
        /\ handler[h].aiAnalysis.phoneAccessQuery = Str(<<"x",":","y",":">>)

\* C13: when the oracle call of the classifier fails the classifier does
\* not raise and returns a Direct action with the fixed fallback text; the
\* router gets an action with one case populated for every message.
C13_OracleFailureIsDirect ==
    \A h \in Handlers :
        LET hr == handler[h]
            a == hr.aiAnalysis
        IN  /\ hr.oracle = Rejected =>
                 /\ IsDirect(a)
                 /\ a.response = AnalyzeFallback
                 /\ Len(hr.trace) >= 3
                 /\ SubSeq(hr.trace, 1, 3) = <<"getChat", "classify", "reply">>
            /\ Routed(hr) =>
                 \/ a.needsSearch /\ ~a.needsPhoneAccess
                       /\ a.searchQuery.t = "string"
                 \/ ~a.needsSearch /\ a.needsPhoneAccess
                       /\ a.phoneAccessType.t = "string"
                 \/ IsDirect(a) /\ a.response.t = "string"

\* C13 witness: the oracle failed and the fallback text was delivered.
C13_Witness ==
    \E h \in Handlers :
        /\ handler[h].oracle = Rejected
        /\ handler[h].pc = "done"
        /\ handler[h].replies = <<AnalyzeFallback>>

\* The kinds and the capability each is served by.
CapabilityOf ==
    {<<<<"c","o","n","t","a","c","t","s">>, "getContacts">>,
     <<<<"f","i","l","e","s">>, "searchFiles">>,
     <<<<"c","a","l","e","n","d","a","r">>, "getCalendarEvents">>,
     <<<<"l","o","c","a","t","i","o","n">>, "getLocation">>}

IsErrorMarker(context, text) ==
    context = [kind |-> "error", items |-> <<>>, error |-> text]

C15_HeadOfProviderList ==
    [][\A h \in Handlers :
          /\ \A results \in SearchPages :
                SearchResolves(h, results) =>
                   LET items == handler'[h].context.items
                   IN  /\ Len(items) = Min(Len(results), MAX_SEARCH_RESULTS)
                       /\ \A i \in 1..Len(items) : items[i] = results[i]
                       /\ handler'[h].pc = "compose"
          /\ SearchRejects(h) =>
                /\ handler'[h].context.items = <<>>
                /\ handler'[h].pc = "compose"]_vars

\* C15 witness: with a limit of 2 a page of 4 results gave its first two.
C15_Witness ==
    \E h \in Handlers :
        /\ MAX_SEARCH_RESULTS = 2
        /\ handler[h].context.kind = "search"
        /\ handler[h].context.items =
              <<[page |-> MaxPageResults, rank |-> 1],
                [page |-> MaxPageResults, rank |-> 2]>>
        /\ handler[h].pc = "done"

\* C16: once the load on missing or corrupt storage has finished, the
\* in-memory profile has both sequences and every observe succeeds: none
\* ends in the handler's catch block.
C16_LoadLeavesUsableProfile ==
    loader.pc = "done" =>
        /\ HasSequences(userPersona)
        /\ \A h \in Handlers :
              Has(handler[h].trace, "observe") => ~Has(handler[h].trace, "catch")

\* A save of handler h fails in this step.
SaveFails(h) == SaveMkdirRejects(h) \/ WriteFileRejects(h)

\* C17: when a save fails, observe returns without raising, the in-memory
\* profile stays as the observe left it, and nothing is replied.
C17_SaveFailureIsSilent ==
    /\ [][\A h \in Handlers :
            SaveFails(h) =>
               /\ userPersona' = userPersona
               /\ handler'[h].pc = "done"
               /\ handler'[h].trace = handler[h].trace]_vars
    /\ [](\A h \in Handlers :
            Has(handler[h].trace, "mkdir") =>
               /\ ~Has(handler[h].trace, "catch")
               /\ handler[h].pc # "raised"
               /\ handler[h].passed = <<>>
               /\ handler[h].replies = <<>>)

\* C17 witness: the write of a save failed and left the file truncated;
\* the observed text is the newest record of the in-memory history.
C17_Witness ==
    \E h \in Handlers :
        LET hist == userPersona.messageHistory
        IN  /\ handler[h].pc = "done"
            /\ handler[h].trace = <<"getChat", "observe", "mkdir", "writeFile">>
            /\ personaFile = CorruptFile
            /\ hist # <<>>
            /\ hist[Len(hist)].content = handler[h].message.body

\* The message of somebody else was checked at the gate while its group
\* was on the allow-list.
AllowedAtGate(hr) ==
    /\ GROUP_RESTRICTION_ENABLED
    /\ ~hr.message.fromMe
    /\ hr.gate # "unchecked"
    /\ hr.message.chat.isGroup
    /\ hr.message.chat.id \in Elems(hr.gateList)

\* The original statement of C18: a message checked at the gate after its
\* group was allowed is eligible and gets a reply.
C18_AllowedGroupGetsReply ==
    \A h \in Handlers :
        AllowedAtGate(handler[h]) =>
            /\ handler[h].gate = "eligible"
            /\ handler[h].pc \in {"done", "raised"} => handler[h].replies # <<>>

\* C18 as amended: the allow-list changes only by '!agent allow' appending
\* the id of the group chat it was sent in, so a group once added stays;
\* a message checked at the gate while its group is on the list is
\* eligible, and one reply is handed to the transport for it, which is
\* delivered unless the transport fails.  The command in a chat that is no
\* group adds nothing.
C18_AllowedGroupIsEligible ==
    /\ [][/\ ALLOWED_GROUP_IDS' # ALLOWED_GROUP_IDS =>
                /\ command.chat.isGroup
                /\ ALLOWED_GROUP_IDS' =
                      Append(ALLOWED_GROUP_IDS, command.chat.id)
          /\ ~command.chat.isGroup => ALLOWED_GROUP_IDS' = ALLOWED_GROUP_IDS
         ]_vars
    /\ [](\A h \in Handlers :
            LET hr == handler[h]
            IN  AllowedAtGate(hr) =>
                  /\ hr.gate = "eligible"
                  /\ hr.pc \in {"done", "raised"} =>
                        /\ Len(hr.passed) = 1
                        /\ \/ hr.replies = hr.passed
                           \/ hr.replies = <<>> /\ Has(hr.trace, "catch"))

\* C18 witness: a message in g2, which only the command can have put on
\* the list, was answered.
C18_Witness ==
    \E h \in Handlers :
        /\ AllowedAtGate(handler[h])
        /\ handler[h].message.chat.id = "g2"
        /\ handler[h].pc = "done"
        /\ Len(handler[h].replies) = 1

\* The observed texts learnFromUserMessage accepts.
Accepted == SelectSeq(observed, LAMBDA t : t.length >= MinLearnLength)

SaveInFlight == \E h \in Handlers : handler[h].pc \in {"mkdir", "writeFile"}

\* C19: whatever the interleaving of observes and saves, once a text was
\* learnt and no save is in flight, the file holds the in-memory profile.
C19_StorageMatchesMemory ==
    (Accepted # <<>> /\ ~SaveInFlight) =>
        personaFile = JSONstringify(userPersona)

\* C20: every accepted text stays in messageHistory as long as the
\* history is not full, and styleSamples holds at least as many entries
\* as texts longer than 30 were observed (up to its cap).
C20_NoObservationLost ==
    /\ Len(userPersona.messageHistory) < MaxMessageHistory =>
          \A i \in 1..Len(Accepted) :
             \E j \in 1..Len(userPersona.messageHistory) :
                userPersona.messageHistory[j].content = Accepted[i]
    /\ Len(userPersona.styleSamples) >= Min(Len(Qualified), MaxStyleSamples)

\* Handler a is suspended at an oracle or search call.
AtOracleOrSearch(a) == handler[a].pc \in {"classify", "search", "compose"}

\* C21: while the oracle or search call of one message does not return,
\* any other message can be received (a free handler takes it), every
\* other handler under way can take its next step, and a self-authored
\* message at its gate can be observed.
C21_HungCallBlocksOnlyItsMessage ==
    \A a \in Handlers :
        AtOracleOrSearch(a) =>
            /\ (\E h \in Handlers : handler[h].pc = "idle") => ENABLED ArriveHang
            /\ \A b \in Handlers \ {a} :
                  /\ ~Finished(handler[b]) => ENABLED HandlerStepHang(b)
                  /\ (handler[b].pc = "getChat" /\ handler[b].message.fromMe)
                        => ENABLED GetChatSelfLearn(b)
                  /\ handler[b].pc = "reply" => ENABLED ReplyResolves(b)

\* C21 witness: the first message is still at its classification call
\* while a later message of the owner was observed and a still later
\* message of somebody else went the search path and was answered.
C21_Witness ==
    \E a, b \in Handlers :
        /\ handler[a].pc = "classify"
        /\ handler[a].message.body.id = 1
        /\ handler[b].pc = "done"
        /\ handler[b].message.body.id = MaxMessagesHang
        /\ handler[b].path = "search"
        /\ Len(handler[b].replies) = 1
        /\ Len(observed) = 1
        /\ Len(userPersona.messageHistory) = 1

\* The handler's promise has settled: the message was observed, dropped,
\* answered, or its handling failed.
Terminal(hr) == hr.pc \in {"done", "raised"}

\* The calls made for the handler's message so far.
OracleCalls(hr) == Count(hr.trace, "classify") + Count(hr.trace, "compose")
LookupCalls(hr) == Count(hr.trace, "search") + Count(hr.trace, "device")

\* C22: when every external call returns or fails in the end, every
\* received message reaches a terminal state, and at no time have more
\* than one reply been delivered for it, more than two oracle calls or
\* more than one search or device call been made.
C22_EveryMessageSettles ==
    /\ \A h \in Handlers : (handler[h].pc # "idle") ~> Terminal(handler[h])
    /\ [](\A h \in Handlers :
            /\ Len(handler[h].replies) <= 1
            /\ OracleCalls(handler[h]) <= 2
            /\ LookupCalls(handler[h]) <= 1)

\* C22 witness: a message settled with one reply delivered after two
\* oracle calls and one search call.
C22_Witness ==
    \E h \in Handlers :
        /\ handler[h].pc = "done"
        /\ Len(handler[h].replies) = 1
        /\ OracleCalls(handler[h]) = 2
        /\ Count(handler[h].trace, "search") = 1

\* The handler's step takes the persona path.
TakesPersonaPath(h) == handler[h].path # "persona" /\ handler'[h].path = "persona"

\* C23: the persona path runs only when USER_PERSONA_ENABLED and
\* styleSamples holds at least 5 entries; its prompt holds exactly the
\* first min(5, length) entries of styleSamples, oldest first, and no
\* search or device context, whatever action was classified.
C23_PromptIsOldestFive ==
    /\ [](\A h \in Handlers :
            handler[h].path = "persona" =>
                /\ USER_PERSONA_ENABLED
                /\ handler[h].routeSamples >= 5
                /\ Len(handler[h].prompt) = Min(5, handler[h].routeSamples)
                /\ handler[h].context = NoContext
                /\ ~Has(handler[h].trace, "search")
                /\ ~Has(handler[h].trace, "device"))
    /\ [][\A h \in Handlers :
            TakesPersonaPath(h) =>
                /\ Len(userPersona.styleSamples) >= 5
                /\ handler'[h].routeSamples = Len(userPersona.styleSamples)
                /\ \A i \in 1..Len(handler'[h].prompt) :
                      handler'[h].prompt[i] = userPersona.styleSamples[i]]_vars

\* C23 witness: the oracle classified a search, search is off, the
\* profile holds more samples than a prompt takes, and the reply composed
\* from the five oldest was delivered.
C23_Witness ==
    \E h \in Handlers :
        /\ handler[h].path = "persona"
        /\ handler[h].aiAnalysis.needsSearch
        /\ handler[h].routeSamples = MaxPromptSamples + 2
        /\ Len(handler[h].prompt) = MaxPromptSamples
        /\ handler[h].prompt[1] = userPersona.styleSamples[1]
        /\ handler[h].pc = "done"
        /\ Len(handler[h].replies) = 1

\* The '!agent allow' command is at the point where it tests and pushes
\* (lines 153-160), sent in a group chat.
CommandAtPush == command.pc = "getChat" /\ command.chat.isGroup

\* C24: the in-memory allow-list changes only by an '!agent allow'
\* command sent in a group chat appending the id of that chat, which was
\* not on the list; no step of the message pipeline changes it, no id is
\* ever removed, and the command in a group already on the list leaves
\* the list as it is.
C24_AllowListOnlyGrowsByCommand ==
    [][/\ ALLOWED_GROUP_IDS' # ALLOWED_GROUP_IDS =>
            /\ CommandAtPush
            /\ command'.pc = "readEnv"
            /\ handler' = handler
            /\ command.chat.id \notin Elems(ALLOWED_GROUP_IDS)
            /\ ALLOWED_GROUP_IDS' = Append(ALLOWED_GROUP_IDS, command.chat.id)
       /\ Elems(ALLOWED_GROUP_IDS) \subseteq Elems(ALLOWED_GROUP_IDS')
       /\ (CommandAtPush /\ command.chat.id \in Elems(ALLOWED_GROUP_IDS))
            => ALLOWED_GROUP_IDS' = ALLOWED_GROUP_IDS
      ]_vars

\* C24 witness: the command was sent a second time in g2 and answered
\* that the group is on the list already, which holds g2 once.
C24_Witness ==
    /\ command.count = 2
    /\ command.chat.id = "g2"
    /\ command.pc = "done"
    /\ command.replies = <<"replyAlready">>
    /\ Count(ALLOWED_GROUP_IDS, "g2") = 1

\* The group ids in the ALLOWED_GROUP_IDS entry of a .env file.
StoredIds(env) ==
    IF env.hasIds THEN Elems(parseAllowedIds(env.ids)) \ {""} ELSE {}

\* C25: when the '!agent allow' command rewrites the .env file, every
\* group id in the file's ALLOWED_GROUP_IDS entry before the write is in
\* the entry after it, group restriction on or off at start-up.
C25_RewriteKeepsStoredIds ==
    [][(command.pc = "writeEnv" /\ command'.pc = "replyAdded")
            => StoredIds(envFile) \subseteq StoredIds(envFile')]_vars

====
